---- MODULE Spec2Model ----
(***************************************************************************)
(* LeadDocket -> BigQuery synchronisation (src/main.py).                   *)
(*                                                                         *)
(* The model covers the paginated fetcher, the shared retry handler, the   *)
(* detail expander, the record normaliser, the warehouse load and the      *)
(* staging -> production merge, wired together as google_cloud_main.        *)
(***************************************************************************)
EXTENDS Integers, Sequences, FiniteSets, TLC

(***************************************************************************)
(* JSON scalar values.  Every scalar is a 4-tuple <<tag, text, n, chars>>  *)
(* so that any two scalars can be compared:                                *)
(*   None            <<"null", "", 0, <<>>>>                               *)
(*   an integer n    <<"int",  "", n, <<>>>>                               *)
(*   a boolean       <<"bool", "", 0 or 1, <<>>>>                          *)
(*   a string        <<"str", text, n, <<>>>>  the text `text`, variant n  *)
(*                   (n tells apart the values one field takes for         *)
(*                   different leads and at different times)               *)
(*   a string given character by character  <<"str", "", 0, chars>>        *)
(***************************************************************************)
NULL == <<"null", "", 0, <<>>>>

Num(n) == <<"int", "", n, <<>>>>

Flag(b) == <<"bool", "", IF b THEN 1 ELSE 0, <<>>>>

Text(s, n) == <<"str", s, n, <<>>>>

Chars(cs) == <<"str", "", 0, cs>>

\* Python truthiness of a scalar: None, 0, False and "" are falsy.
Truthy(v) ==
  /\ v # NULL
  /\ v # Chars(<<>>)
  /\ ~(v[1] \in {"int", "bool"} /\ v[3] = 0)

(***************************************************************************)
(* The warehouse schema of the load job: <<column, type>> in order.        *)
(***************************************************************************)
SchemaFields ==
  <<
    <<"id", "INTEGER">>, <<"status", "STRING">>, <<"substatus", "STRING">>,
    <<"severitylevel", "INTEGER">>, <<"code", "STRING">>, <<"contact_firstname", "STRING">>,
    <<"contact_middlename", "STRING">>, <<"contact_lastname", "STRING">>,
    <<"contact_address1", "STRING">>, <<"contact_address2", "STRING">>,
    <<"contact_city", "STRING">>, <<"contact_state", "STRING">>, <<"contact_zip", "STRING">>,
    <<"contact_county", "STRING">>, <<"contact_homephone", "STRING">>,
    <<"contact_mobilephone", "STRING">>, <<"contact_workphone", "STRING">>,
    <<"contact_email", "STRING">>, <<"contact_preferredcontactmethod", "STRING">>,
    <<"contact_birthdate", "DATE">>, <<"contact_subscribetomailinglist", "BOOL">>,
    <<"contact_badaddress", "BOOL">>, <<"contact_deceased", "BOOL">>,
    <<"contact_gender", "STRING">>, <<"contact_minor", "BOOL">>,
    <<"contact_language", "STRING">>, <<"practicearea_name", "STRING">>,
    <<"practicearea_code", "STRING">>, <<"marketingsource", "STRING">>,
    <<"contactsource", "STRING">>, <<"talkedtootherattorneys", "BOOL">>, <<"utm", "STRING">>,
    <<"currenturl", "STRING">>, <<"referringurl", "STRING">>, <<"clickid", "STRING">>,
    <<"clientid", "STRING">>, <<"keywords", "STRING">>, <<"campaign", "STRING">>,
    <<"appointmentlocation", "STRING">>, <<"office", "STRING">>,
    <<"referredto_name", "STRING">>, <<"referredbyname", "STRING">>,
    <<"createddate", "DATETIME">>, <<"incidentdate", "DATETIME">>,
    <<"rejecteddate", "DATETIME">>, <<"referreddate", "DATETIME">>,
    <<"assigneddate", "DATETIME">>, <<"appointmentscheduleddate", "DATETIME">>,
    <<"chasedate", "DATETIME">>, <<"signedupdate", "DATETIME">>,
    <<"casecloseddate", "DATETIME">>, <<"lostdate", "DATETIME">>,
    <<"underreviewdate", "DATETIME">>, <<"pendingsignupdate", "DATETIME">>,
    <<"holddate", "DATETIME">>, <<"intake_firstname", "STRING">>,
    <<"intake_lastname", "STRING">>, <<"intake_email", "STRING">>, <<"intake_code", "STRING">>,
    <<"paralegal_firstname", "STRING">>, <<"paralegal_lastname", "STRING">>,
    <<"paralegal_email", "STRING">>, <<"paralegal_code", "STRING">>,
    <<"investigator_firstname", "STRING">>, <<"investigator_lastname", "STRING">>,
    <<"investigator_email", "STRING">>, <<"investigator_code", "STRING">>,
    <<"attorney_firstname", "STRING">>, <<"attorney_lastname", "STRING">>,
    <<"attorney_email", "STRING">>, <<"attorney_code", "STRING">>,
    <<"creator_firstname", "STRING">>, <<"creator_lastname", "STRING">>,
    <<"creator_email", "STRING">>, <<"creator_code", "STRING">>, <<"phonecall_id", "INTEGER">>,
    <<"phonecall_callfrom", "STRING">>, <<"phonecall_callto", "STRING">>,
    <<"phonecall_callsid", "STRING">>, <<"phonecall_label", "STRING">>,
    <<"phonecall_recordingurl", "STRING">>, <<"phonecall_createddate", "DATETIME">>
  >>

SchemaColumns == {SchemaFields[i][1] : i \in 1..Len(SchemaFields)}

(***************************************************************************)
(* convert_datetime_to_date: strptime with "%Y-%m-%dT%H:%M:%S", then       *)
(* year, month and day rendered as plain integers joined by hyphens.       *)
(* Strings are sequences of one-character strings.                         *)
(***************************************************************************)
Digits == {"0", "1", "2", "3", "4", "5", "6", "7", "8", "9"}

DigitString == <<"0", "1", "2", "3", "4", "5", "6", "7", "8", "9">>

DigitVal(c) == CHOOSE n \in 0..9 : DigitString[n + 1] = c

AllDigits(cs) == \A i \in 1..Len(cs) : cs[i] \in Digits

RECURSIVE ToInt(_)
ToInt(cs) ==
  IF cs = <<>> THEN 0
  ELSE 10 * ToInt(SubSeq(cs, 1, Len(cs) - 1)) + DigitVal(cs[Len(cs)])

RECURSIVE ToChars(_)
ToChars(n) ==
  IF n < 10 THEN <<DigitString[n + 1]>>
  ELSE ToChars(n \div 10) \o <<DigitString[(n % 10) + 1]>>

\* Index of the first character of cs that is in S, or Len(cs) + 1.
IndexOf(cs, S) ==
  IF \E i \in 1..Len(cs) : cs[i] \in S
  THEN CHOOSE i \in 1..Len(cs) : cs[i] \in S /\ \A j \in 1..(i - 1) : cs[j] \notin S
  ELSE Len(cs) + 1

\* The piece of cs before the first separator in S, and what follows it.
Piece(cs, S) == SubSeq(cs, 1, IndexOf(cs, S) - 1)

Rest(cs, S) == SubSeq(cs, IndexOf(cs, S) + 1, Len(cs))

HasSep(cs, S) == IndexOf(cs, S) <= Len(cs)

\* One or two digits with a value in lo..hi; a two-digit form may start with 0.
OneOrTwo(cs, lo, hi) ==
  /\ Len(cs) \in {1, 2}
  /\ AllDigits(cs)
  /\ ToInt(cs) \in lo..hi

\* %m is 1[0-2]|0[1-9]|[1-9];  %d is 3[0-1]|[1-2]\d|0[1-9]|[1-9]| [1-9].
MonthOk(cs) == OneOrTwo(cs, 1, 12)

DayDigits(cs) == IF Len(cs) = 2 /\ cs[1] = " " THEN <<cs[2]>> ELSE cs

DayOk(cs) == OneOrTwo(DayDigits(cs), 1, 31)

IsLeap(y) == (y % 4 = 0 /\ y % 100 # 0) \/ y % 400 = 0

DaysInMonth(y, m) ==
  IF m = 2 THEN (IF IsLeap(y) THEN 29 ELSE 28)
  ELSE IF m \in {4, 6, 9, 11} THEN 30 ELSE 31

\* The result of strptime: [ok |-> FALSE] stands for the ValueError.
strptime(cs) ==
  LET Y  == Piece(cs, {"-"})
      r1 == Rest(cs, {"-"})
      m  == Piece(r1, {"-"})
      r2 == Rest(r1, {"-"})
      d  == Piece(r2, {"T", "t"})
      r3 == Rest(r2, {"T", "t"})
      H  == Piece(r3, {":"})
      r4 == Rest(r3, {":"})
      M  == Piece(r4, {":"})
      S  == Rest(r4, {":"})
      shape == /\ HasSep(cs, {"-"}) /\ HasSep(r1, {"-"}) /\ HasSep(r2, {"T", "t"})
               /\ HasSep(r3, {":"}) /\ HasSep(r4, {":"})
               /\ Len(Y) = 4 /\ AllDigits(Y)
               /\ MonthOk(m) /\ DayOk(d)
               /\ OneOrTwo(H, 0, 23) /\ OneOrTwo(M, 0, 59) /\ OneOrTwo(S, 0, 61)
  IN  IF shape /\ ToInt(Y) >= 1 /\ ToInt(S) <= 59
               /\ ToInt(DayDigits(d)) <= DaysInMonth(ToInt(Y), ToInt(m))
      THEN [ok |-> TRUE, year |-> ToInt(Y), month |-> ToInt(m), day |-> ToInt(DayDigits(d))]
      ELSE [ok |-> FALSE, year |-> 0, month |-> 0, day |-> 0]

\* [ok, value]: the date-only string, or ok = FALSE when strptime raises.
convert_datetime_to_date(datetime_string) ==
  LET dt_object == strptime(datetime_string[4])
  IN  IF datetime_string[1] = "str" /\ dt_object.ok
      THEN [ok |-> TRUE,
            value |-> Chars(ToChars(dt_object.year) \o <<"-">> \o ToChars(dt_object.month)
                            \o <<"-">> \o ToChars(dt_object.day))]
      ELSE [ok |-> FALSE, value |-> NULL]

(***************************************************************************)
(* LeadDetail: the JSON object of GET leads/{id}.  top maps the scalar     *)
(* keys that are present to their values; sub maps the sub-object keys     *)
(* that are present to [null, f]: null = TRUE is a JSON null, otherwise f  *)
(* maps the sub-object's keys to scalars.  A key outside the DOMAIN is     *)
(* absent from the response, and reading it raises KeyError.               *)
(***************************************************************************)
SubObj(f) == [null |-> FALSE, f |-> f]

NullObj == [null |-> TRUE, f |-> [k \in {} |-> NULL]]

\* Python truthiness of a sub-object: None and {} are falsy.
Falsy(o) == o.null \/ DOMAIN o.f = {}

PersonKeys == {"FirstName", "LastName", "Email", "Code"}

ReferralKeys == {"Name"}

PhoneCallKeys == {"Id", "CallFrom", "CallTo", "CallSID", "Label", "RecordingUrl", "CreatedDate"}

\* json_data[field] = {...} when json_data[field] is falsy; ok = FALSE is the KeyError.
normalize_person_field(json_data, field) ==
  IF field \notin DOMAIN json_data.sub THEN [ok |-> FALSE, lead |-> json_data]
  ELSE IF Falsy(json_data.sub[field])
  THEN [ok |-> TRUE,
        lead |-> [json_data EXCEPT !.sub[field] = SubObj([k \in PersonKeys |-> NULL])]]
  ELSE [ok |-> TRUE, lead |-> json_data]

normalize_referral_field(json_data, field) ==
  IF field \notin DOMAIN json_data.sub THEN [ok |-> FALSE, lead |-> json_data]
  ELSE IF Falsy(json_data.sub[field])
  THEN [ok |-> TRUE,
        lead |-> [json_data EXCEPT !.sub[field] = SubObj([k \in ReferralKeys |-> NULL])]]
  ELSE [ok |-> TRUE, lead |-> json_data]

normalize_phonecall_field(json_data, field) ==
  IF field \notin DOMAIN json_data.sub THEN [ok |-> FALSE, lead |-> json_data]
  ELSE IF Falsy(json_data.sub[field])
  THEN [ok |-> TRUE,
        lead |-> [json_data EXCEPT !.sub[field] = SubObj([k \in PhoneCallKeys |-> NULL])]]
  ELSE [ok |-> TRUE, lead |-> json_data]

(***************************************************************************)
(* convert_severity_level_to_severity_id: five `if`s in sequence, each     *)
(* comparing SeverityLevel with one phrase and storing the code in place.  *)
(***************************************************************************)
SeverityPhrases ==
  << "No Case",
     "Unlikely Case - No Injuries",
     "Possible Case - Minor Injuries / Light Therapy / Short Hospital Stay",
     "Likely Case - Moderate Injuries / Ongoing Treatment",
     "Very Likely Case - Severe Injuries / Catastrophic" >>

RECURSIVE SeverityFrom_zero_based(_, _)
SeverityFrom_zero_based(v, k) ==
  IF k > Len(SeverityPhrases) THEN v
  ELSE SeverityFrom_zero_based(IF v = Text(SeverityPhrases[k], 0) THEN Num(k - 1) ELSE v, k + 1)

RECURSIVE SeverityFrom(_, _)
SeverityFrom(v, k) ==
  IF k > Len(SeverityPhrases) THEN v
  ELSE SeverityFrom(IF v = Text(SeverityPhrases[k], 0) THEN Num(k) ELSE v, k + 1)

convert_severity_level_to_severity_id(detailed_lead) ==
  IF "SeverityLevel" \notin DOMAIN detailed_lead.top
  THEN [ok |-> FALSE, lead |-> detailed_lead]
  ELSE [ok |-> TRUE,
        lead |-> [detailed_lead EXCEPT
                    !.top["SeverityLevel"] = SeverityFrom(detailed_lead.top["SeverityLevel"], 1)]]

(***************************************************************************)
(* normalize_lead.  RowMap is the list of assignments                      *)
(* new_lead[column] = detailed_lead[path], in source order.                *)
(***************************************************************************)
RowMap ==
  <<
    <<"id", <<"Id">>>>, <<"status", <<"Status">>>>, <<"substatus", <<"SubStatus">>>>,
    <<"severitylevel", <<"SeverityLevel">>>>, <<"code", <<"Code">>>>,
    <<"contact_firstname", <<"Contact", "FirstName">>>>,
    <<"contact_middlename", <<"Contact", "MiddleName">>>>,
    <<"contact_lastname", <<"Contact", "LastName">>>>,
    <<"contact_address1", <<"Contact", "Address1">>>>,
    <<"contact_address2", <<"Contact", "Address2">>>>,
    <<"contact_city", <<"Contact", "City">>>>, <<"contact_state", <<"Contact", "State">>>>,
    <<"contact_zip", <<"Contact", "Zip">>>>, <<"contact_county", <<"Contact", "County">>>>,
    <<"contact_homephone", <<"Contact", "HomePhone">>>>,
    <<"contact_mobilephone", <<"Contact", "MobilePhone">>>>,
    <<"contact_workphone", <<"Contact", "WorkPhone">>>>,
    <<"contact_email", <<"Contact", "Email">>>>,
    <<"contact_preferredcontactmethod", <<"Contact", "PreferredContactMethod">>>>,
    <<"contact_birthdate", <<"Contact", "Birthdate">>>>,
    <<"contact_subscribetomailinglist", <<"Contact", "SubscribeToMailingList">>>>,
    <<"contact_badaddress", <<"Contact", "BadAddress">>>>,
    <<"contact_deceased", <<"Contact", "Deceased">>>>,
    <<"contact_gender", <<"Contact", "Gender">>>>, <<"contact_minor", <<"Contact", "Minor">>>>,
    <<"contact_language", <<"Contact", "Language">>>>,
    <<"practicearea_name", <<"PracticeArea", "Name">>>>,
    <<"practicearea_code", <<"PracticeArea", "Code">>>>,
    <<"marketingsource", <<"MarketingSource">>>>, <<"contactsource", <<"ContactSource">>>>,
    <<"talkedtootherattorneys", <<"TalkedToOtherAttorneys">>>>, <<"utm", <<"UTM">>>>,
    <<"currenturl", <<"CurrentUrl">>>>, <<"clickid", <<"ClickId">>>>,
    <<"clientid", <<"ClientId">>>>, <<"keywords", <<"Keywords">>>>,
    <<"campaign", <<"Campaign">>>>, <<"appointmentlocation", <<"AppointmentLocation">>>>,
    <<"office", <<"Office">>>>, <<"referredto_name", <<"ReferredTo", "Name">>>>,
    <<"referredbyname", <<"ReferredByName">>>>, <<"createddate", <<"CreatedDate">>>>,
    <<"incidentdate", <<"IncidentDate">>>>, <<"rejecteddate", <<"RejectedDate">>>>,
    <<"referreddate", <<"ReferredDate">>>>, <<"assigneddate", <<"AssignedDate">>>>,
    <<"appointmentscheduleddate", <<"AppointmentScheduledDate">>>>,
    <<"chasedate", <<"ChaseDate">>>>, <<"signedupdate", <<"SignedUpDate">>>>,
    <<"casecloseddate", <<"CaseClosedDate">>>>, <<"lostdate", <<"LostDate">>>>,
    <<"underreviewdate", <<"UnderReviewDate">>>>,
    <<"pendingsignupdate", <<"PendingSignupDate">>>>, <<"holddate", <<"HoldDate">>>>,
    <<"paralegal_firstname", <<"Paralegal", "FirstName">>>>,
    <<"paralegal_lastname", <<"Paralegal", "LastName">>>>,
    <<"paralegal_email", <<"Paralegal", "Email">>>>,
    <<"paralegal_code", <<"Paralegal", "Code">>>>,
    <<"investigator_firstname", <<"Investigator", "FirstName">>>>,
    <<"investigator_lastname", <<"Investigator", "LastName">>>>,
    <<"investigator_email", <<"Investigator", "Email">>>>,
    <<"investigator_code", <<"Investigator", "Code">>>>,
    <<"attorney_firstname", <<"Attorney", "FirstName">>>>,
    <<"attorney_lastname", <<"Attorney", "LastName">>>>,
    <<"attorney_email", <<"Attorney", "Email">>>>, <<"attorney_code", <<"Attorney", "Code">>>>,
    <<"creator_firstname", <<"Creator", "FirstName">>>>,
    <<"creator_lastname", <<"Creator", "LastName">>>>,
    <<"creator_email", <<"Creator", "Email">>>>, <<"creator_code", <<"Creator", "Code">>>>,
    <<"phonecall_id", <<"PhoneCall", "Id">>>>,
    <<"phonecall_callfrom", <<"PhoneCall", "CallFrom">>>>,
    <<"phonecall_callto", <<"PhoneCall", "CallTo">>>>,
    <<"phonecall_callsid", <<"PhoneCall", "CallSID">>>>,
    <<"phonecall_label", <<"PhoneCall", "Label">>>>,
    <<"phonecall_recordingurl", <<"PhoneCall", "RecordingUrl">>>>,
    <<"phonecall_createddate", <<"PhoneCall", "CreatedDate">>>>
  >>

RowColumns == {RowMap[i][1] : i \in 1..Len(RowMap)}

\* The source path assigned to each column.
RowPath == [c \in RowColumns |-> RowMap[CHOOSE i \in 1..Len(RowMap) : RowMap[i][1] = c][2]]

\* detailed_lead[p1] or detailed_lead[p1][p2] can be read without an exception.
PathOk(lead, p) ==
  IF Len(p) = 1 THEN p[1] \in DOMAIN lead.top
  ELSE /\ p[1] \in DOMAIN lead.sub
       /\ ~lead.sub[p[1]].null
       /\ p[2] \in DOMAIN lead.sub[p[1]].f

Get(lead, p) == IF Len(p) = 1 THEN lead.top[p[1]] ELSE lead.sub[p[1]].f[p[2]]

\* Lines 393-394: the Birthdate is reformatted in place when it is truthy.
normalize_birthdate(detailed_lead) ==
  IF ~PathOk(detailed_lead, <<"Contact", "Birthdate">>)
  THEN [ok |-> FALSE, lead |-> detailed_lead]
  ELSE LET b == detailed_lead.sub["Contact"].f["Birthdate"]
       IN  IF ~Truthy(b) THEN [ok |-> TRUE, lead |-> detailed_lead]
           ELSE IF ~convert_datetime_to_date(b).ok THEN [ok |-> FALSE, lead |-> detailed_lead]
           ELSE [ok |-> TRUE,
                 lead |-> [detailed_lead EXCEPT
                             !.sub["Contact"].f["Birthdate"] = convert_datetime_to_date(b).value]]

\* Lines 396-405, in order (Investigator is normalised twice).
NormSteps ==
  << <<"severity", "SeverityLevel">>,
     <<"person", "Paralegal">>, <<"person", "Investigator">>, <<"person", "Attorney">>,
     <<"person", "Creator">>, <<"person", "Investigator">>, <<"person", "Intake">>,
     <<"referral", "ReferredBy">>, <<"referral", "ReferredTo">>,
     <<"phonecall", "PhoneCall">> >>

NormStep(lead, step) ==
  CASE step[1] = "severity"  -> convert_severity_level_to_severity_id(lead)
    [] step[1] = "person"    -> normalize_person_field(lead, step[2])
    [] step[1] = "referral"  -> normalize_referral_field(lead, step[2])
    [] step[1] = "phonecall" -> normalize_phonecall_field(lead, step[2])

RECURSIVE RunSteps(_, _)
RunSteps(acc, k) ==
  IF k > Len(NormSteps) \/ ~acc.ok THEN acc
  ELSE RunSteps(NormStep(acc.lead, NormSteps[k]), k + 1)

\* new_lead, built by lines 407-484 from the lead as normalised so far.
new_lead(lead) == [c \in RowColumns |-> Get(lead, RowPath[c])]

NoRow == [c \in {} |-> NULL]

\* [ok, row, lead]: ok = FALSE when an exception is raised; lead is the
\* argument object as the call leaves it (it is modified in place).
normalize_lead(detailed_lead) ==
  LET a == normalize_birthdate(detailed_lead)
      b == RunSteps(a, 1)
      c == convert_severity_level_to_severity_id(b.lead)
  IN  IF ~b.ok THEN [ok |-> FALSE, row |-> NoRow, lead |-> b.lead]
      ELSE IF \E i \in 1..Len(RowMap) : ~PathOk(c.lead, RowMap[i][2])
      THEN [ok |-> FALSE, row |-> NoRow, lead |-> c.lead]
      ELSE [ok |-> TRUE, row |-> new_lead(c.lead), lead |-> c.lead]

(***************************************************************************)
(* The LeadDocket API as the program sees it.                              *)
(***************************************************************************)
\* Bounds of the environment.
MaxId == 2

MaxPages == 2

MaxPageLen == 1

MaxVersion == 2

MaxRuns == 2

MaxFailures == 2

\* Bounds of the change lists get_lead_changes_since is studied on by itself.
FetchMaxPages == 3

FetchMaxPageLen == 2

\* Longest table the merge is studied on by itself.
MaxRows == 2

Ids == 1..MaxId

\* HTTP status codes the API answers with; only 200 counts as success (line 60).
Statuses == {200, 429, 500}

\* The sub-object keys of a LeadDetail.
LeadSubList ==
  <<"Contact", "PracticeArea", "ReferredTo", "ReferredBy", "Paralegal", "Investigator",
    "Attorney", "Creator", "Intake", "PhoneCall">>

LeadSubKeys == {LeadSubList[i] : i \in 1..Len(LeadSubList)}

OptionalSubs ==
  {"Paralegal", "Investigator", "Attorney", "Creator", "Intake", "ReferredBy", "ReferredTo",
   "PhoneCall"}

\* "Summary" stands for the fields of the API that the row does not use.
LeadTopKeys ==
  {RowMap[i][2][1] : i \in {j \in 1..Len(RowMap) : Len(RowMap[j][2]) = 1}} \cup {"Summary"}

SubKeys ==
  [name \in LeadSubKeys |->
  CASE name \in {"Paralegal", "Investigator", "Attorney", "Creator", "Intake"} -> PersonKeys
    [] name \in {"ReferredBy", "ReferredTo"} -> ReferralKeys
    [] name = "PhoneCall" -> PhoneCallKeys
    [] OTHER -> {RowMap[i][2][2] :
                   i \in {j \in 1..Len(RowMap) : Len(RowMap[j][2]) = 2 /\ RowMap[j][2][1] = name}}]

SubOffset ==
  [name \in LeadSubKeys |-> 100 * (CHOOSE i \in 1..Len(LeadSubList) : LeadSubList[i] = name)]

BoolKeys == {"TalkedToOtherAttorneys", "SubscribeToMailingList", "BadAddress", "Deceased", "Minor"}

\* The value the API gives field `key` (of sub-object `name`, or "" at top
\* level) for lead `id` at version `v` of its data.
ApiValue(name, key, id, v) ==
  IF key \in BoolKeys THEN Flag(v % 2 = 1)
  ELSE IF key = "Id" THEN (IF name = "" THEN Num(id) ELSE Num(1000 + 10 * id + v))
  ELSE Text(key, (IF name = "" THEN 0 ELSE SubOffset[name]) + 10 * id + v)

\* A LeadDetail for lead id at version v; shape tells for each optional
\* sub-object whether it is "present", "null" or "absent".
LeadDetail(id, v, shape, sev, bd) ==
  [top |-> [k \in LeadTopKeys |->
              IF k = "SeverityLevel" THEN sev ELSE ApiValue("", k, id, v)],
   sub |-> [name \in {m \in LeadSubKeys : m \in OptionalSubs => shape[m] # "absent"} |->
              IF name \in OptionalSubs /\ shape[name] = "null" THEN NullObj
              ELSE SubObj([k \in SubKeys[name] |->
                             IF name = "Contact" /\ k = "Birthdate" THEN bd
                             ELSE ApiValue(name, k, id, v)])]]

Birthdate1 ==
  Chars(<<"2", "0", "2", "0", "-", "0", "1", "-", "0", "5", "T", "0", "0", ":", "0", "0",
          ":", "0", "0">>)

\* What GET leads/{id} returns while the API holds version v of the leads:
\* odd id + v gives a lead with every optional sub-object null.
ApiLead(id, v) ==
  LeadDetail(id, v,
             [m \in OptionalSubs |-> IF (id + v) % 2 = 1 THEN "null" ELSE "present"],
             Text(SeverityPhrases[((id + v) % Len(SeverityPhrases)) + 1], 0),
             IF (id + v) % 2 = 1 THEN NULL ELSE Birthdate1)

SeqsOf(S, lo, hi) == UNION {[1..k -> S] : k \in lo..hi}

\* One run's view of the change list: TotalPages, the Records (lead Ids) of
\* each page, and the version of the lead data.
ScenariosOf(maxPages, maxLen, versions) ==
  UNION {[tp : {t}, pages : [1..t -> SeqsOf(Ids, 1, maxLen)], ver : versions] :
           t \in 0..maxPages}

\* URLs: the change list without a page parameter (page = 0), the change
\* list with &page=k, and leads/{id}.
ChangesUrl == [ep |-> "changes", arg |-> 0]

PageUrl(k) == [ep |-> "changes", arg |-> k]

LeadUrl(id) == [ep |-> "lead", arg |-> id]

NoUrl == [ep |-> "", arg |-> 0]

\* The Records array the API serves for a change-list URL.
RecordsAt(scn, url) ==
  LET k == IF url.arg = 0 THEN 1 ELSE url.arg
  IN  IF k \in 1..Len(scn.pages) THEN scn.pages[k] ELSE <<>>

GetEvent(url, status) == [op |-> "get", url |-> url, n |-> status]

SleepEvent(secs) == [op |-> "sleep", url |-> NoUrl, n |-> secs]

handle_api_errors_retry_twice(response, url, retry_status) ==
  IF response.status # 200
  THEN [response |-> [status |-> retry_status, url |-> url],
        events |-> <<SleepEvent(IF response.status = 429 THEN 120 ELSE 60),
                     GetEvent(url, response.status),
                     SleepEvent(IF response.status = 429 THEN 120 ELSE 60),
                     GetEvent(url, retry_status)>>]
  ELSE [response |-> response, events |-> <<>>]

handle_api_errors_sleep60(response, url, retry_status) ==
  IF response.status # 200
  THEN [response |-> [status |-> retry_status, url |-> url],
        events |-> <<SleepEvent(60), GetEvent(url, retry_status)>>]
  ELSE [response |-> response, events |-> <<>>]

(***************************************************************************)
(* handle_api_errors(response, url, headers).  retry_status is the status  *)
(* the API answers the retried request with.  The result carries the       *)
(* response returned and what the call did (sleep, request).               *)
(***************************************************************************)
handle_api_errors(response, url, retry_status) ==
  IF response.status # 200
  THEN [response |-> [status |-> retry_status, url |-> url],
        events |-> <<SleepEvent(IF response.status = 429 THEN 120 ELSE 60),
                     GetEvent(url, retry_status)>>]
  ELSE [response |-> response, events |-> <<>>]

(***************************************************************************)
(* The warehouse.  A table is [exists, rows]; rows is the list of its      *)
(* rows, each a function from SchemaColumns to scalars.                    *)
(***************************************************************************)
NoTable == [exists |-> FALSE, rows |-> <<>>]

SchemaType ==
  [c \in SchemaColumns |->
     SchemaFields[CHOOSE i \in 1..Len(SchemaFields) : SchemaFields[i][1] = c][2]]

TypeOk(type, v) ==
  \/ v = NULL
  \/ type = "INTEGER" /\ v[1] = "int"
  \/ type = "BOOL" /\ v[1] = "bool"
  \/ type \in {"STRING", "DATE", "DATETIME"} /\ v[1] = "str"

\* A JSON line the load job accepts: no unknown field, every value of its column's type.
LineOk(row) ==
  /\ DOMAIN row \subseteq SchemaColumns
  /\ \A c \in DOMAIN row : TypeOk(SchemaType[c], row[c])

\* The table row of a JSON line: a column the line lacks is NULL.
TableRow(row) == [c \in SchemaColumns |-> IF c \in DOMAIN row THEN row[c] ELSE NULL]

upload_to_bigquery_append(leads, table, write_mode) ==
  IF \/ \E i \in 1..Len(leads) : ~LineOk(leads[i])
     \/ write_mode = "WRITE_EMPTY" /\ table.exists /\ table.rows # <<>>
  THEN [ok |-> FALSE, table |-> table]
  ELSE [ok |-> TRUE,
        table |-> [exists |-> TRUE,
                   rows |-> table.rows \o [i \in 1..Len(leads) |-> TableRow(leads[i])]]]

\* upload_to_bigquery(leads, table_id, write_mode): [ok, table]; ok = FALSE
\* when the load job fails and ClientError is raised (the table is unchanged).
upload_to_bigquery(leads, table, write_mode) ==
  IF \/ \E i \in 1..Len(leads) : ~LineOk(leads[i])
     \/ write_mode = "WRITE_EMPTY" /\ table.exists /\ table.rows # <<>>
  THEN [ok |-> FALSE, table |-> table]
  ELSE [ok |-> TRUE,
        table |-> [exists |-> TRUE,
                   rows |-> (IF write_mode = "WRITE_TRUNCATE" THEN <<>> ELSE table.rows)
                              \o [i \in 1..Len(leads) |-> TableRow(leads[i])]]]

(***************************************************************************)
(* The MERGE statement of upsert_to_bigquery.  MergeSet lists the          *)
(* assignments `column = staging.column2` of its UPDATE SET clause.        *)
(***************************************************************************)
MergeSet ==
  <<
    <<"status", "status">>, <<"substatus", "substatus">>, <<"rejecteddate", "rejecteddate">>,
    <<"referreddate", "referreddate">>, <<"assigneddate", "assigneddate">>,
    <<"appointmentscheduleddate", "appointmentscheduleddate">>, <<"chasedate", "chasedate">>,
    <<"signedupdate", "signedupdate">>, <<"casecloseddate", "casecloseddate">>,
    <<"lostdate", "lostdate">>, <<"underreviewdate", "underreviewdate">>,
    <<"pendingsignupdate", "pendingsignupdate">>, <<"holddate", "signedupdate">>,
    <<"paralegal_firstname", "paralegal_firstname">>,
    <<"paralegal_lastname", "paralegal_lastname">>, <<"paralegal_email", "paralegal_email">>,
    <<"paralegal_code", "paralegal_code">>,
    <<"investigator_firstname", "investigator_firstname">>,
    <<"investigator_lastname", "investigator_lastname">>,
    <<"investigator_email", "investigator_email">>,
    <<"investigator_code", "investigator_code">>,
    <<"attorney_firstname", "attorney_firstname">>,
    <<"attorney_lastname", "attorney_lastname">>, <<"attorney_email", "attorney_email">>,
    <<"attorney_code", "attorney_code">>, <<"phonecall_id", "phonecall_id">>,
    <<"phonecall_callfrom", "phonecall_callfrom">>, <<"phonecall_callto", "phonecall_callto">>,
    <<"phonecall_callsid", "phonecall_callsid">>, <<"phonecall_label", "phonecall_label">>,
    <<"phonecall_recordingurl", "phonecall_recordingurl">>,
    <<"phonecall_createddate", "phonecall_createddate">>
  >>

\* ON prod.Id = staging.Id (a NULL id matches nothing).
Matches(p, s) == p["id"] # NULL /\ p["id"] = s["id"]

MatchesOf(p, stagingRows) == {j \in 1..Len(stagingRows) : Matches(p, stagingRows[j])}

MergeColumns == {MergeSet[i][1] : i \in 1..Len(MergeSet)}

\* The staging column each updated column is assigned from.
MergeSource ==
  [c \in MergeColumns |-> MergeSet[CHOOSE i \in 1..Len(MergeSet) : MergeSet[i][1] = c][2]]

UpdateSet_with_email(p, s) ==
  [c \in SchemaColumns |->
     IF c = "contact_email" THEN s[c]
     ELSE IF c \in MergeColumns THEN s[MergeSource[c]] ELSE p[c]]

\* WHEN MATCHED THEN UPDATE SET ...
UpdateSet(p, s) == [c \in SchemaColumns |-> IF c \in MergeColumns THEN s[MergeSource[c]] ELSE p[c]]

RECURSIVE SelectRows(_, _)
SelectRows(rows, keep) ==
  IF rows = <<>> THEN <<>>
  ELSE (IF keep[1] THEN <<rows[1]>> ELSE <<>>) \o SelectRows(Tail(rows), Tail(keep))

\* WHEN NOT MATCHED THEN INSERT ROW: the staging rows that match no production row.
Inserted(prodRows, stagingRows) ==
  SelectRows(stagingRows,
             [j \in 1..Len(stagingRows) |->
                \A i \in 1..Len(prodRows) : ~Matches(prodRows[i], stagingRows[j])])

MergeQuery_delete_unmatched(prodRows, stagingRows) ==
  IF \E i \in 1..Len(prodRows) : Cardinality(MatchesOf(prodRows[i], stagingRows)) > 1
  THEN [ok |-> FALSE, rows |-> prodRows]
  ELSE [ok |-> TRUE,
        rows |-> SelectRows([i \in 1..Len(prodRows) |->
                               IF MatchesOf(prodRows[i], stagingRows) = {} THEN prodRows[i]
                               ELSE UpdateSet(prodRows[i],
                                              stagingRows[CHOOSE j \in MatchesOf(prodRows[i], stagingRows) : TRUE])],
                            [i \in 1..Len(prodRows) |-> MatchesOf(prodRows[i], stagingRows) # {}])
                 \o Inserted(prodRows, stagingRows)]

\* [ok, rows]: the production rows after the statement; ok = FALSE when the
\* query fails because a production row matches more than one staging row.
MergeQuery(prodRows, stagingRows) ==
  IF \E i \in 1..Len(prodRows) : Cardinality(MatchesOf(prodRows[i], stagingRows)) > 1
  THEN [ok |-> FALSE, rows |-> prodRows]
  ELSE [ok |-> TRUE,
        rows |-> [i \in 1..Len(prodRows) |->
                    IF MatchesOf(prodRows[i], stagingRows) = {} THEN prodRows[i]
                    ELSE UpdateSet(prodRows[i],
                                   stagingRows[CHOOSE j \in MatchesOf(prodRows[i], stagingRows) : TRUE])]
                 \o Inserted(prodRows, stagingRows)]

\* upsert_to_bigquery(prod_table_id, staging_table_id): [ok, prod, rows_inserted].
upsert_to_bigquery(prodTable, stagingTable) ==
  LET row_count_before_query == Len(prodTable.rows)
      q == MergeQuery(prodTable.rows, stagingTable.rows)
  IN  IF ~prodTable.exists \/ ~stagingTable.exists \/ ~q.ok
      THEN [ok |-> FALSE, prod |-> prodTable, rows_inserted |-> 0]
      ELSE [ok |-> TRUE, prod |-> [prodTable EXCEPT !.rows = q.rows],
            rows_inserted |-> Len(q.rows) - row_count_before_query]

(***************************************************************************)
(* Configuration.  The environment is the set of the settings that are     *)
(* set; os.environ.get gives None for the others.                          *)
(***************************************************************************)
Settings ==
  {"LEAD_DOCKET_BASE_URL", "PROJECT_ID", "SECRET_ID", "DATASET_ID", "PROD_TABLE_ID",
   "STAGING_TABLE_ID"}

os_environ_get(environ, name) == IF name \in environ THEN Text(name, 0) ELSE NULL

\* Python truthiness of a tuple: false only for the empty tuple.
TruthyTuple(t) == Len(t) > 0

\* Lines 19-21, run when the module is loaded: TRUE when exit() is called.
base_url_exit(environ) == ~Truthy(os_environ_get(environ, "LEAD_DOCKET_BASE_URL"))

\* get_secret(project_id, secret_id): one access_secret_version request for
\* the name built from the two ids (None is formatted into the name); ok =
\* FALSE when Secret Manager has no such secret and the call raises.
get_secret(project_id, secret_id) ==
  [exit |-> FALSE,
   ok |-> project_id # NULL /\ secret_id # NULL,
   requests |-> <<[project |-> project_id, secret |-> secret_id]>>]

\* get_lead_docket_headers(): [exit, ok, requests]; exit = TRUE when line 584
\* calls exit(), requests are the Secret Manager requests made.
get_lead_docket_headers(environ) ==
  LET project_id == os_environ_get(environ, "PROJECT_ID")
      secret_id == os_environ_get(environ, "SECRET_ID")
  IN  IF ~TruthyTuple(<<project_id, secret_id>>)
      THEN [exit |-> TRUE, ok |-> FALSE, requests |-> <<>>]
      ELSE get_secret(project_id, secret_id)

\* Lines 621-627 of google_cloud_main: TRUE when exit() is called.
warehouse_settings_exit(environ) ==
  LET dataset_id == os_environ_get(environ, "DATASET_ID")
      prod_table_id == os_environ_get(environ, "PROD_TABLE_ID")
      staging_table_id == os_environ_get(environ, "STAGING_TABLE_ID")
  IN  ~TruthyTuple(<<dataset_id, prod_table_id, staging_table_id>>)

(***************************************************************************)
(* State.                                                                  *)
(***************************************************************************)
VARIABLES
  env,                  \* the settings that are set in the environment
  secret_requests,      \* Secret Manager requests of this run
  pc,                   \* where google_cloud_main is, or how the last run ended
  runs,                 \* invocations of google_cloud_main so far
  api,                  \* what the API serves during this run
  failures,             \* non-200 responses received in this run
  TotalPages,           \* changed_records_json['TotalPages']
  page_iter,
  records_to_update,    \* lead Ids of the summaries collected
  current_lead_counter,
  detailed_leads,
  requests,             \* URLs requested in this run, in order
  call_log,             \* requests and sleeps of the latest request site
  dataset_exists,
  prod,                 \* production table
  staging,              \* staging table
  rows_inserted,        \* value returned by the latest upsert_to_bigquery
  before,               \* the warehouse when the run (or the upsert) started
  detailed_lead,        \* argument of the call under study, as it was passed
  json_data,            \* the same object, as the calls so far have left it
  normalized            \* result of the latest normalize_lead call

vars ==
  <<pc, runs, api, failures, TotalPages, page_iter, records_to_update, current_lead_counter,
    detailed_leads, requests, call_log, dataset_exists, prod, staging, rows_inserted, before,
    detailed_lead, json_data, normalized, env, secret_requests>>

configVars == <<env, secret_requests>>

fetchVars == <<TotalPages, page_iter, records_to_update, requests, call_log, failures>>

warehouseVars == <<dataset_exists, prod, staging, rows_inserted>>

normVars == <<detailed_lead, json_data, normalized>>

NoScenario == [tp |-> 0, pages |-> <<>>, ver |-> 1]

Warehouse == [dataset_exists |-> dataset_exists, prod |-> prod, staging |-> staging]

NoResult == [ok |-> FALSE, row |-> NoRow, lead |-> ApiLead(1, 1)]

Ended == {"done", "exit_page", "exit_lead", "raised_first", "raised_normalize", "raised_load",
          "raised_merge", "exit_config", "raised_secret", "raised_config"}

LocalsInit ==
  /\ api = NoScenario
  /\ failures = 0
  /\ TotalPages = 0
  /\ page_iter = 2
  /\ records_to_update = <<>>
  /\ current_lead_counter = 1
  /\ detailed_leads = <<>>
  /\ requests = <<>>
  /\ call_log = <<>>

Init ==
  /\ pc = "idle"
  /\ runs = 0
  /\ LocalsInit
  /\ dataset_exists = FALSE
  /\ prod = NoTable
  /\ staging = NoTable
  /\ rows_inserted = 0
  /\ before = Warehouse
  /\ detailed_lead = ApiLead(1, 1)
  /\ json_data = detailed_lead
  /\ normalized = NoResult
  /\ env = Settings
  /\ secret_requests = <<>>

(***************************************************************************)
(* google_cloud_main, step by step.                                        *)
(***************************************************************************)
\* Lines 19-21: the module is loaded; without a base URL it exits there.
LoadModule ==
  /\ pc = "import"
  /\ pc' = IF base_url_exit(env) THEN "exit_import" ELSE "idle"
  /\ UNCHANGED <<runs, api, fetchVars, current_lead_counter, detailed_leads, warehouseVars,
                 before, normVars, configVars>>

\* Lines 621-649: a new invocation, up to the headers.  What the API serves
\* during the run is fixed here; the lead data has changed since the run before.
StartRun ==
  /\ pc \in Ended \cup {"idle"}
  /\ runs < MaxRuns
  /\ runs' = runs + 1
  /\ LET headers == get_lead_docket_headers(env)
     IN  IF warehouse_settings_exit(env)
         THEN pc' = "exit_config" /\ secret_requests' = <<>>
         ELSE /\ secret_requests' = headers.requests
              /\ pc' = IF headers.exit THEN "exit_config"
                       ELSE IF ~headers.ok THEN "raised_secret" ELSE "first"
  /\ IF pc' = "first" THEN api' \in ScenariosOf(MaxPages, MaxPageLen, {runs'})
     ELSE api' = NoScenario
  /\ failures' = 0
  /\ TotalPages' = 0
  /\ page_iter' = 2
  /\ records_to_update' = <<>>
  /\ current_lead_counter' = 1
  /\ detailed_leads' = <<>>
  /\ requests' = <<>>
  /\ call_log' = <<>>
  /\ before' = Warehouse
  /\ UNCHANGED <<warehouseVars, normVars, env>>

extractRecords_prepend(records, json_records) == json_records \o records

\* _extractRecords (lines 129-131): the Records of a response are appended.
extractRecords(records, json_records) == records \o json_records

failed_only_429(response) == response.status = 429

\* Lines 152 and 537: give up when the response in hand is not a success.
failed(response) == response.status # 200

\* Where the run goes once get_lead_changes_since has returned `records`.
AfterFetch(records) == IF records = <<>> THEN "dataset" ELSE "details"

\* Lines 105-139: the first request; its status is not looked at, and the
\* body of a failed response has no TotalRecordCount, so reading it raises.
FirstRequest ==
  /\ pc = "first"
  /\ \E s \in Statuses :
       /\ s # 200 => failures < MaxFailures
       /\ failures' = failures + (IF s = 200 THEN 0 ELSE 1)
       /\ requests' = <<ChangesUrl>>
       /\ call_log' = <<GetEvent(ChangesUrl, s)>>
       /\ IF s = 200
          THEN /\ TotalPages' = api.tp
               /\ records_to_update' = extractRecords(<<>>, RecordsAt(api, ChangesUrl))
               /\ pc' = IF api.tp > 1 THEN "pages" ELSE AfterFetch(records_to_update')
          ELSE /\ pc' = "raised_first"
               /\ UNCHANGED <<TotalPages, records_to_update>>
  /\ page_iter' = 2
  /\ UNCHANGED <<runs, api, current_lead_counter, detailed_leads, warehouseVars, before,
                 normVars, configVars>>

FailuresOf(s1, s2) == IF s1 = 200 THEN 0 ELSE IF s2 = 200 THEN 1 ELSE 2

\* The URLs of the requests among a list of events.
RECURSIVE UrlsOf(_)
UrlsOf(events) ==
  IF events = <<>> THEN <<>>
  ELSE (IF events[1].op = "get" THEN <<events[1].url>> ELSE <<>>) \o UrlsOf(Tail(events))

\* Lines 142-163: one iteration of the page loop.
PageIteration ==
  /\ pc = "pages"
  /\ page_iter <= TotalPages
  /\ \E s1 \in Statuses, s2 \in Statuses :
       LET page_url == PageUrl(page_iter)
           url == ChangesUrl
           h == handle_api_errors([status |-> s1, url |-> page_url], url, s2)
       IN  /\ s1 = 200 => s2 = 200
           /\ failures + FailuresOf(s1, s2) <= MaxFailures
           /\ failures' = failures + FailuresOf(s1, s2)
           /\ call_log' = <<GetEvent(page_url, s1)>> \o h.events
           /\ requests' = requests \o UrlsOf(call_log')
           /\ IF failed(h.response)
              THEN /\ pc' = "exit_page"
                   /\ UNCHANGED <<records_to_update, page_iter>>
              ELSE /\ records_to_update' =
                        extractRecords(records_to_update, RecordsAt(api, h.response.url))
                   /\ page_iter' = page_iter + 1
                   /\ pc' = IF page_iter' <= TotalPages THEN "pages"
                            ELSE AfterFetch(records_to_update')
  /\ UNCHANGED <<runs, api, TotalPages, current_lead_counter, detailed_leads, warehouseVars,
                 before, normVars, configVars>>

\* Lines 527-546: one iteration of the detail loop.
DetailIteration ==
  /\ pc = "details"
  /\ current_lead_counter <= Len(records_to_update)
  /\ \E s1 \in Statuses, s2 \in Statuses :
       LET lead == records_to_update[current_lead_counter]
           url == LeadUrl(lead)
           h == handle_api_errors([status |-> s1, url |-> url], url, s2)
           n == normalize_lead(ApiLead(h.response.url.arg, api.ver))
       IN  /\ s1 = 200 => s2 = 200
           /\ failures + FailuresOf(s1, s2) <= MaxFailures
           /\ failures' = failures + FailuresOf(s1, s2)
           /\ call_log' = <<GetEvent(url, s1)>> \o h.events
           /\ requests' = requests \o UrlsOf(call_log')
           /\ IF failed(h.response)
              THEN /\ pc' = "exit_lead"
                   /\ UNCHANGED <<detailed_leads, current_lead_counter>>
              ELSE IF ~n.ok
              THEN /\ pc' = "raised_normalize"
                   /\ UNCHANGED <<detailed_leads, current_lead_counter>>
              ELSE /\ detailed_leads' = Append(detailed_leads, n.row)
                   /\ current_lead_counter' = current_lead_counter + 1
                   /\ pc' = IF current_lead_counter' <= Len(records_to_update) THEN "details"
                            ELSE "dataset"
  /\ UNCHANGED <<runs, api, TotalPages, page_iter, records_to_update, warehouseVars, before,
                 normVars, configVars>>

\* Lines 653-658: create the dataset when it does not exist.  Without a
\* dataset id the lookup raises.
EnsureDataset ==
  /\ pc = "dataset"
  /\ IF "DATASET_ID" \in env
     THEN dataset_exists' = TRUE /\ pc' = "table"
     ELSE pc' = "raised_config" /\ UNCHANGED dataset_exists
  /\ UNCHANGED <<runs, api, fetchVars, current_lead_counter, detailed_leads, prod, staging,
                 rows_inserted, before, normVars, configVars>>

\* Line 661 without a production table id: the lookup raises.
TableUnconfigured ==
  /\ pc = "table"
  /\ "PROD_TABLE_ID" \notin env
  /\ pc' = "raised_config"
  /\ UNCHANGED <<runs, api, fetchVars, current_lead_counter, detailed_leads, warehouseVars,
                 before, normVars, configVars>>

\* Lines 661-663: no production table yet, so load straight into production.
LoadProd ==
  /\ pc = "table"
  /\ "PROD_TABLE_ID" \in env
  /\ ~prod.exists
  /\ LET u == upload_to_bigquery(detailed_leads, prod, "WRITE_EMPTY")
     IN  /\ prod' = u.table
         /\ pc' = IF u.ok THEN "done" ELSE "raised_load"
  /\ UNCHANGED <<runs, api, fetchVars, current_lead_counter, detailed_leads, dataset_exists,
                 staging, rows_inserted, before, normVars, configVars>>

\* Lines 665-667: the production table exists, so replace staging.
LoadStaging ==
  /\ pc = "table"
  /\ "PROD_TABLE_ID" \in env
  /\ prod.exists
  /\ LET u == upload_to_bigquery(detailed_leads, staging, "WRITE_TRUNCATE")
     IN  IF "STAGING_TABLE_ID" \notin env
         THEN pc' = "raised_config" /\ UNCHANGED staging
         ELSE /\ staging' = u.table
              /\ pc' = IF u.ok THEN "merge" ELSE "raised_load"
  /\ UNCHANGED <<runs, api, fetchVars, current_lead_counter, detailed_leads, dataset_exists,
                 prod, rows_inserted, before, normVars, configVars>>

\* Line 669: merge staging into production.
Upsert ==
  /\ pc = "merge"
  /\ LET r == upsert_to_bigquery(prod, staging)
     IN  /\ prod' = r.prod
         /\ rows_inserted' = IF r.ok THEN r.rows_inserted ELSE rows_inserted
         /\ pc' = IF r.ok THEN "done" ELSE "raised_merge"
  /\ UNCHANGED <<runs, api, fetchVars, current_lead_counter, detailed_leads, dataset_exists,
                 staging, before, normVars, configVars>>

Next ==
  \/ StartRun
  \/ FirstRequest
  \/ PageIteration
  \/ DetailIteration
  \/ EnsureDataset
  \/ LoadProd
  \/ LoadStaging
  \/ Upsert

Spec == Init /\ [][Next]_vars

(***************************************************************************)
(* The same runs with progress: google_cloud_main is sequential code, so   *)
(* a run that has started takes its next step once the request, sleep or   *)
(* warehouse job it waits for has returned.  When a new run starts is up   *)
(* to the trigger.                                                         *)
(***************************************************************************)
\* Weak fairness of DetailIteration, written out: the iteration is enabled
\* exactly when pc = "details" (a 200 answer is always possible, and the
\* step moves pc or the counter).
DetailFairness == []<>(pc # "details") \/ []<><<DetailIteration>>_vars

Fairness ==
  /\ WF_vars(FirstRequest)
  /\ WF_vars(PageIteration)
  /\ DetailFairness
  /\ WF_vars(EnsureDataset)
  /\ WF_vars(LoadProd)
  /\ WF_vars(LoadStaging)
  /\ WF_vars(Upsert)

SpecLive == Init /\ [][Next]_vars /\ Fairness

(***************************************************************************)
(* Start-up: the module is loaded and google_cloud_main is invoked in an   *)
(* environment in which any of the settings may be missing.                *)
(***************************************************************************)
InitConfig ==
  /\ pc = "import"
  /\ runs = 0
  /\ LocalsInit
  /\ dataset_exists = FALSE
  /\ prod = NoTable
  /\ staging = NoTable
  /\ rows_inserted = 0
  /\ before = Warehouse
  /\ detailed_lead = ApiLead(1, 1)
  /\ json_data = detailed_lead
  /\ normalized = NoResult
  /\ env \in SUBSET Settings
  /\ secret_requests = <<>>

NextConfig ==
  \/ LoadModule
  \/ TableUnconfigured
  \/ Next

SpecConfig == InitConfig /\ [][NextConfig]_vars

(***************************************************************************)
(* get_lead_changes_since by itself: one call, on any change list of up    *)
(* to FetchMaxPages pages of up to FetchMaxPageLen records.                *)
(***************************************************************************)
InitFetch ==
  /\ pc = "first"
  /\ runs = 1
  /\ api \in ScenariosOf(FetchMaxPages, FetchMaxPageLen, {1})
  /\ failures = 0
  /\ TotalPages = 0
  /\ page_iter = 2
  /\ records_to_update = <<>>
  /\ current_lead_counter = 1
  /\ detailed_leads = <<>>
  /\ requests = <<>>
  /\ call_log = <<>>
  /\ dataset_exists = FALSE
  /\ prod = NoTable
  /\ staging = NoTable
  /\ rows_inserted = 0
  /\ before = Warehouse
  /\ detailed_lead = ApiLead(1, 1)
  /\ json_data = detailed_lead
  /\ normalized = NoResult
  /\ env = Settings
  /\ secret_requests = <<>>

NextFetch ==
  \/ FirstRequest
  \/ PageIteration

SpecFetch == InitFetch /\ [][NextFetch]_vars

(***************************************************************************)
(* normalize_lead by itself: one call on a LeadDetail in which each        *)
(* optional sub-object is present, null or absent.                         *)
(***************************************************************************)
Shapes == [OptionalSubs -> {"present", "null", "absent"}]

InitNorm ==
  /\ pc = "normalize"
  /\ runs = 0
  /\ LocalsInit
  /\ dataset_exists = FALSE
  /\ prod = NoTable
  /\ staging = NoTable
  /\ rows_inserted = 0
  /\ before = Warehouse
  /\ \E shape \in Shapes, sev \in {Text(SeverityPhrases[1], 0), NULL}, bd \in {Birthdate1, NULL} :
       detailed_lead = LeadDetail(1, 1, shape, sev, bd)
  /\ json_data = detailed_lead
  /\ normalized = NoResult
  /\ env = Settings
  /\ secret_requests = <<>>

\* Line 544: normalize_lead(detailed_lead), and the same call made again on
\* the same object.  The call works on the object it is passed.
Normalize ==
  /\ pc \in {"normalize", "normalized"}
  /\ normalized' = normalize_lead(json_data)
  /\ json_data' = normalized'.lead
  /\ pc' = IF pc = "normalize" THEN "normalized" ELSE "normalized_again"
  /\ UNCHANGED <<runs, api, fetchVars, current_lead_counter, detailed_leads, warehouseVars,
                 before, detailed_lead, configVars>>

NextNorm == Normalize

SpecNorm == InitNorm /\ [][NextNorm]_vars

(***************************************************************************)
(* convert_severity_level_to_severity_id by itself: called, and called     *)
(* again on its own result, on leads whose SeverityLevel is a known        *)
(* phrase, another string, null, an integer or a boolean.                  *)
(***************************************************************************)
SeverityInputs ==
  {Text(SeverityPhrases[k], 0) : k \in 1..Len(SeverityPhrases)}
    \cup {Text(SeverityPhrases[k], 1) : k \in 1..Len(SeverityPhrases)}
    \cup {Text("no case", 0), Text("", 0), NULL, Flag(TRUE), Flag(FALSE)}
    \cup {Num(k) : k \in 0..(Len(SeverityPhrases) + 1)}

InitSeverity ==
  /\ pc = "severity"
  /\ runs = 0
  /\ LocalsInit
  /\ dataset_exists = FALSE
  /\ prod = NoTable
  /\ staging = NoTable
  /\ rows_inserted = 0
  /\ before = Warehouse
  /\ \E id \in Ids, v \in 1..MaxVersion, sev \in SeverityInputs :
       detailed_lead = LeadDetail(id, v, [m \in OptionalSubs |-> "present"], sev, Birthdate1)
  /\ json_data = detailed_lead
  /\ normalized = NoResult
  /\ env = Settings
  /\ secret_requests = <<>>

\* Lines 396 and 411: convert_severity_level_to_severity_id(detailed_lead),
\* which stores the code in the object it is passed.
ConvertSeverity ==
  /\ pc \in {"severity", "severity_once"}
  /\ LET r == convert_severity_level_to_severity_id(json_data)
     IN  /\ json_data' = r.lead
         /\ pc' = IF ~r.ok THEN "raised_severity"
                  ELSE IF pc = "severity" THEN "severity_once" ELSE "severity_twice"
  /\ UNCHANGED <<runs, api, fetchVars, current_lead_counter, detailed_leads, warehouseVars,
                 before, detailed_lead, normalized, configVars>>

NextSeverity == ConvertSeverity

SpecSeverity == InitSeverity /\ [][NextSeverity]_vars

(***************************************************************************)
(* upsert_to_bigquery by itself: repeated calls on a production table that *)
(* a first run loaded and a staging table that a later run loaded.         *)
(***************************************************************************)
StoredRow(id, v) == TableRow(normalize_lead(ApiLead(id, v)).row)

TablesOf(versions) ==
  {[exists |-> TRUE, rows |-> [k \in 1..Len(s) |-> StoredRow(s[k][1], s[k][2])]] :
     s \in SeqsOf(Ids \X versions, 0, MaxRows)}

InitMerge ==
  /\ pc = "upsert"
  /\ runs = 0
  /\ LocalsInit
  /\ dataset_exists = TRUE
  /\ prod \in TablesOf({1})
  /\ staging \in TablesOf(1..MaxVersion)
  /\ rows_inserted = 0
  /\ before = Warehouse
  /\ detailed_lead = ApiLead(1, 1)
  /\ json_data = detailed_lead
  /\ normalized = NoResult
  /\ env = Settings
  /\ secret_requests = <<>>

\* One call of upsert_to_bigquery; staging is left as it is between calls.
UpsertCall ==
  /\ pc \in {"upsert", "upserted", "raised_merge"}
  /\ LET r == upsert_to_bigquery(prod, staging)
     IN  /\ prod' = r.prod
         /\ rows_inserted' = IF r.ok THEN r.rows_inserted ELSE rows_inserted
         /\ pc' = IF r.ok THEN "upserted" ELSE "raised_merge"
  /\ before' = Warehouse
  /\ UNCHANGED <<runs, api, fetchVars, current_lead_counter, detailed_leads, dataset_exists,
                 staging, normVars, configVars>>

NextMerge == UpsertCall

SpecMerge == InitMerge /\ [][NextMerge]_vars

(***************************************************************************)
(* One invocation of google_cloud_main on a warehouse as earlier runs may  *)
(* have left it: no dataset; a dataset without tables; a production table  *)
(* alone; production and staging.                                          *)
(***************************************************************************)
InitRun ==
  /\ pc = "idle"
  /\ runs = MaxRuns - 1
  /\ LocalsInit
  /\ dataset_exists \in BOOLEAN
  /\ prod \in IF dataset_exists THEN {NoTable} \cup TablesOf({1}) ELSE {NoTable}
  /\ staging \in IF prod.exists THEN {NoTable} \cup TablesOf({1}) ELSE {NoTable}
  /\ rows_inserted = 0
  /\ before = Warehouse
  /\ detailed_lead = ApiLead(1, 1)
  /\ json_data = detailed_lead
  /\ normalized = NoResult
  /\ env = Settings
  /\ secret_requests = <<>>

SpecRun == InitRun /\ [][Next]_vars

(***************************************************************************)
(* Properties.                                                             *)
(***************************************************************************)
\* The Records of pages 1..k of a change list, in page order.
RECURSIVE ConcatPages(_, _)
ConcatPages(pages, k) == IF k = 0 THEN <<>> ELSE ConcatPages(pages, k - 1) \o pages[k]

\* get_lead_changes_since has returned.
FetchReturned == pc \in {"details", "dataset"}

\* The latest request site got a failure, retried, and the retry failed too.
DoubleFailure(log) == Len(log) = 3 /\ log[1].n # 200 /\ log[3].n # 200

\* The production rows before the merge of this run, when the run took the merge path.
Merged == pc = "done" /\ before.prod.exists

ContactColumns ==
  {RowMap[i][1] : i \in {j \in 1..Len(RowMap) : RowMap[j][2][1] = "Contact"}}

\* The number of rows of a list that equal r.
CountOf(rows, r) == Cardinality({i \in 1..Len(rows) : rows[i] = r})

\* The flat columns of the schema that belong to each optional sub-object.
FlatFields ==
  [m \in OptionalSubs |->
     CASE m = "Paralegal" ->
            {"paralegal_firstname", "paralegal_lastname", "paralegal_email", "paralegal_code"}
       [] m = "Investigator" ->
            {"investigator_firstname", "investigator_lastname", "investigator_email",
             "investigator_code"}
       [] m = "Attorney" ->
            {"attorney_firstname", "attorney_lastname", "attorney_email", "attorney_code"}
       [] m = "Creator" ->
            {"creator_firstname", "creator_lastname", "creator_email", "creator_code"}
       [] m = "Intake" ->
            {"intake_firstname", "intake_lastname", "intake_email", "intake_code"}
       [] m = "ReferredBy" -> {"referredbyname"}
       [] m = "ReferredTo" -> {"referredto_name"}
       [] m = "PhoneCall" ->
            {"phonecall_id", "phonecall_callfrom", "phonecall_callto", "phonecall_callsid",
             "phonecall_label", "phonecall_recordingurl", "phonecall_createddate"}]

\* Sub-object m is null in, or absent from, the LeadDetail.
Missing(lead, m) == m \notin DOMAIN lead.sub \/ lead.sub[m].null

\* C1: the production table never holds two rows with the same lead Id.
C1_NoDuplicateIds ==
  \A i, j \in 1..Len(prod.rows) : prod.rows[i]["id"] = prod.rows[j]["id"] => i = j

\* C2: when a page request fails and its retry succeeds, the retry asks for
\* the same page, so the sequence get_lead_changes_since returns is still the
\* concatenation of the Records of pages 1..TotalPages in page order.
C2_RetrySamePage ==
  /\ Len(call_log) = 3 => call_log[3].url = call_log[1].url
  /\ FetchReturned /\ TotalPages >= 1 =>
       records_to_update = ConcatPages(api.pages, TotalPages)

\* C3: when no request fails and TotalPages >= 1, get_lead_changes_since
\* issues exactly TotalPages requests (the first one, then pages 2..TotalPages,
\* TotalPages being the first response's) and returns the pages' Records
\* concatenated in page order, each page in its own order.
C3_PaginationNoFailure ==
  FetchReturned /\ failures = 0 /\ TotalPages >= 1 =>
    /\ TotalPages = api.tp
    /\ requests = [k \in 1..TotalPages |-> IF k = 1 THEN ChangesUrl ELSE PageUrl(k)]
    /\ records_to_update = ConcatPages(api.pages, TotalPages)

C3_Witness ==
  /\ FetchReturned
  /\ failures = 0
  /\ TotalPages = 3
  /\ Len(requests) = 3
  /\ Len(api.pages[1]) = 2
  /\ api.pages[1][1] # api.pages[1][2]
  /\ api.pages[2] # api.pages[3]
  /\ Len(records_to_update) >= 4

\* C4: at every page request after the first and every detail request, a
\* failed first response is followed by exactly one sleep (120 s after a 429,
\* 60 s otherwise) and then exactly one retry; a successful first response by
\* no sleep and no retry; a request site never issues more than two requests.
C4_OneSleepOneRetry ==
  call_log # <<>> /\ call_log[1].url # ChangesUrl =>
    /\ call_log[1].op = "get"
    /\ call_log[1].n = 200 => Len(call_log) = 1
    /\ call_log[1].n # 200 =>
         /\ Len(call_log) = 3
         /\ call_log[2] = SleepEvent(IF call_log[1].n = 429 THEN 120 ELSE 60)
         /\ call_log[3].op = "get"
    /\ Len(UrlsOf(call_log)) <= 2

C4_Witness ==
  /\ Len(call_log) = 3
  /\ call_log[1].url.ep = "lead"
  /\ call_log[1].n = 429
  /\ call_log[2].n = 120
  /\ call_log[3].n = 200

\* C5: when the retry of a page or detail request fails too, the run ends
\* there, and the run has written nothing to the warehouse: the dataset,
\* production and staging are as they were before the run.
C5_AbortWritesNothing ==
  /\ DoubleFailure(call_log) => pc \in {"exit_page", "exit_lead"}
  /\ pc \in {"exit_page", "exit_lead"} => DoubleFailure(call_log) /\ Warehouse = before

C5_Witness ==
  /\ pc = "exit_lead"
  /\ DoubleFailure(call_log)
  /\ prod.rows # <<>>
  /\ detailed_leads # <<>>

\* C6: the keys of the row normalize_lead returns are exactly the columns of
\* the schema of the load job.
C6_RowKeysAreSchema ==
  pc = "normalized" /\ normalized.ok => DOMAIN normalized.row = SchemaColumns

\* C7: whichever optional sub-objects are null or absent, normalize_lead
\* completes, and the row has every flat field of a missing sub-object as a
\* key, with a null value.
C7_MissingSubObjects ==
  pc = "normalized" =>
    /\ normalized.ok
    /\ \A m \in OptionalSubs :
         Missing(detailed_lead, m) =>
           \A c \in FlatFields[m] : c \in DOMAIN normalized.row /\ normalized.row[c] = NULL

\* C8: after the merge, every production row whose Id matches a staging row
\* has, in each column the merge overwrites, the staging row's value of that
\* same column.
C8_MatchedTakeStaging ==
  Merged =>
    \A i \in 1..Len(before.prod.rows) :
      \A j \in MatchesOf(before.prod.rows[i], staging.rows) :
        \A c \in MergeColumns : prod.rows[i][c] = staging.rows[j][c]

\* C9: the merge leaves the Id and the contact fields of a matched production
\* row unchanged, leaves an unmatched production row unchanged in every
\* field, and inserts the full staging row for every staging row whose Id
\* matches no production row (and inserts nothing else).
C9_MergeFrame ==
  Merged =>
    LET old == before.prod.rows
        new == prod.rows
        added == SubSeq(new, Len(old) + 1, Len(new))
    IN  /\ Len(new) >= Len(old)
        /\ \A i \in 1..Len(old) :
             IF MatchesOf(old[i], staging.rows) = {}
             THEN new[i] = old[i]
             ELSE \A c \in ContactColumns \cup {"id"} : new[i][c] = old[i][c]
        /\ \A j \in 1..Len(staging.rows) :
             CountOf(added, staging.rows[j]) =
               IF \E i \in 1..Len(old) : Matches(old[i], staging.rows[j]) THEN 0
               ELSE CountOf(staging.rows, staging.rows[j])
        /\ \A k \in 1..Len(added) : \E j \in 1..Len(staging.rows) : added[k] = staging.rows[j]

C9_Witness ==
  /\ Merged
  /\ Len(prod.rows) > Len(before.prod.rows)
  /\ \E i \in 1..Len(before.prod.rows) :
       \E j \in MatchesOf(before.prod.rows[i], staging.rows) :
         /\ staging.rows[j]["contact_email"] # before.prod.rows[i]["contact_email"]
         /\ prod.rows[i]["status"] # before.prod.rows[i]["status"]

\* C10: a call of upsert_to_bigquery that follows a completed call, with
\* staging unchanged, returns an inserted-row delta of zero and leaves the
\* production table as the first call left it.
C10_SecondUpsertIdempotent ==
  [][pc = "upserted" => (pc' = "upserted" /\ rows_inserted' = 0 /\ prod' = prod)]_vars

\* Where google_cloud_main is once it has asked the warehouse for something.
WarehouseAsked == {"table", "merge", "done", "raised_load", "raised_merge"}

\* C11: when a required setting is absent, the run aborts before any network
\* call: no Secret Manager request, no LeadDocket request and no warehouse
\* request is made.
C11_ConfigAbortsBeforeNetwork ==
  env # Settings =>
    /\ pc \in {"import", "idle", "exit_import", "exit_config"}
    /\ secret_requests = <<>>
    /\ requests = <<>>
    /\ pc \notin WarehouseAsked
    /\ ~dataset_exists

\* The table rows of the rows this run built.
RunRows == [k \in 1..Len(detailed_leads) |-> TableRow(detailed_leads[k])]

\* C12: without a production table at the start of the run, the run's rows
\* are loaded into production and neither a staging write nor a merge
\* happens; with one, staging is replaced by exactly the run's rows, the merge
\* runs only once that load has completed, and production is written by the
\* merge alone.
C12_LoadThenMerge ==
  /\ ~before.prod.exists =>
       /\ pc \notin {"merge", "raised_merge"}
       /\ staging = before.staging
       /\ pc = "done" => prod = [exists |-> TRUE, rows |-> RunRows]
  /\ before.prod.exists =>
       /\ pc \in {"merge", "raised_merge", "done"} =>
            staging = [exists |-> TRUE, rows |-> RunRows]
       /\ pc \notin {"merge", "raised_merge", "done"} => staging = before.staging
       /\ pc # "done" => prod = before.prod
       /\ pc = "done" => prod.rows = MergeQuery(before.prod.rows, RunRows).rows

C12_Witness ==
  /\ pc = "done"
  /\ before.prod.exists
  /\ Len(before.staging.rows) = 2
  /\ Len(staging.rows) = 1
  /\ staging.rows[1] \notin {before.staging.rows[1], before.staging.rows[2]}

\* C16: no step of any run, completed or aborted, removes a row from the
\* production table: the table stays, every row keeps its place and its lead
\* Id, and the row count does not decrease.
C16_ProductionNeverShrinks ==
  [][/\ prod.exists => prod'.exists
     /\ Len(prod'.rows) >= Len(prod.rows)
     /\ \A i \in 1..Len(prod.rows) : prod'.rows[i]["id"] = prod.rows[i]["id"]]_vars

C16_Witness ==
  /\ pc = "done"
  /\ Len(before.prod.rows) = 2
  /\ Len(prod.rows) = 3
  /\ \E i \in 1..2 : MatchesOf(before.prod.rows[i], staging.rows) = {}

\* get_lead_details has returned to google_cloud_main.
DetailsReturned ==
  pc \in {"dataset", "table", "merge", "done", "raised_load", "raised_merge", "raised_config"}

\* C13: when no request has failed twice, get_lead_details returns one row
\* per summary, in order, the i-th row being the normalized detail of the
\* i-th summary's Id; and the summaries are the Records of the change-list
\* pages in page order, so the rows are one per record of the pages.
C13_OneRowPerRecord ==
  DetailsReturned =>
    /\ Len(detailed_leads) = Len(records_to_update)
    /\ \A i \in 1..Len(detailed_leads) :
         detailed_leads[i] = normalize_lead(ApiLead(records_to_update[i], api.ver)).row
    /\ records_to_update = ConcatPages(api.pages, TotalPages)

\* The severity code the specification gives a SeverityLevel value.
SeverityCode(v) ==
  CASE v = Text("No Case", 0) -> Num(1)
    [] v = Text("Unlikely Case - No Injuries", 0) -> Num(2)
    [] v = Text("Possible Case - Minor Injuries / Light Therapy / Short Hospital Stay", 0) ->
         Num(3)
    [] v = Text("Likely Case - Moderate Injuries / Ongoing Treatment", 0) -> Num(4)
    [] v = Text("Very Likely Case - Severe Injuries / Catastrophic", 0) -> Num(5)
    [] OTHER -> v

\* C14: convert_severity_level_to_severity_id maps the five known phrases
\* to 1..5 and leaves any other SeverityLevel (null, an integer, another
\* string) as it is, changing nothing else of the lead; applied twice it
\* gives what it gives applied once.
C14_SeverityMapping ==
  pc \in {"severity_once", "severity_twice"} =>
    json_data =
      [detailed_lead EXCEPT
         !.top["SeverityLevel"] = SeverityCode(detailed_lead.top["SeverityLevel"])]

C14_Witness ==
  /\ pc = "severity_twice"
  /\ detailed_lead.top["SeverityLevel"] = Text(SeverityPhrases[5], 0)
  /\ json_data.top["SeverityLevel"] = Num(5)

\* C15: normalize_lead is pure: the LeadDetail it was passed is, after the
\* call, as it was before it (Birthdate, SeverityLevel and the optional
\* sub-objects included), and a second call on the same LeadDetail returns
\* what the first call returned.
C15_NormalizePure ==
  [][/\ pc = "normalize" => json_data' = detailed_lead
     /\ pc = "normalized" => normalized' = normalized]_vars

\* The first response has been read: TotalPages is the P of this run.
FirstResponseRead == requests # <<>> /\ pc # "raised_first"

\* Iterations of the page loop and of the detail loop entered so far (an
\* iteration that ends the run has not advanced its counter).
PageIterations == page_iter - 2 + (IF pc = "exit_page" THEN 1 ELSE 0)

DetailIterations ==
  current_lead_counter - 1 + (IF pc \in {"exit_lead", "raised_normalize"} THEN 1 ELSE 0)

AtLeast0(n) == IF n < 0 THEN 0 ELSE n

\* C17 as stated: with P = TotalPages of the first response and R the
\* records fetched, at most P-1 page iterations, at most R detail iterations
\* and at most 1 + 2*(P-1) + 2*R requests.
C17_BoundAsStated ==
  FirstResponseRead =>
    /\ PageIterations <= TotalPages - 1
    /\ DetailIterations <= Len(records_to_update)
    /\ Len(requests) <= 1 + 2 * (TotalPages - 1) + 2 * Len(records_to_update)

\* C17, amended: every run that has started ends (completes or aborts), and
\* with P = TotalPages of the first response and R the records fetched, the
\* page loop runs at most max(P-1, 0) iterations, the detail loop at most R,
\* and the run makes at most 1 + 2*max(P-1, 0) + 2*R requests.
C17_TerminatesWithinBound ==
  /\ [](FirstResponseRead =>
          /\ PageIterations <= AtLeast0(TotalPages - 1)
          /\ DetailIterations <= Len(records_to_update)
          /\ Len(requests) <= 1 + 2 * AtLeast0(TotalPages - 1) + 2 * Len(records_to_update))
  /\ (pc \notin Ended \cup {"idle"}) ~> (pc \in Ended)

C17_Witness ==
  /\ pc = "done"
  /\ TotalPages >= 1
  /\ failures >= 1
  /\ Len(records_to_update) >= 1
  /\ Len(requests) = 1 + 2 * (TotalPages - 1) + 2 * Len(records_to_update)

====
